---- MODULE Spec2Model ----
(***************************************************************************)
(* A model of the soundtools Contentful proxy (src/src/index.ts and        *)
(* src/src/routes/contentful.ts): the cache key generator, the URL         *)
(* rewriter, the NodeCache store, the resource handlers of both source     *)
(* variants of routes/contentful.ts, the rate limiter in front of the      *)
(* routes and the router the routes are registered on.                     *)
(*                                                                         *)
(* Strings are sequences of fragments: a JavaScript string is the          *)
(* concatenation of its fragments, and string equality is sequence         *)
(* equality.                                                               *)
(***************************************************************************)
EXTENDS Integers, Sequences, FiniteSets, TLC

VARIABLES
    \* the rewriter applied to one JSON value
    rw_pc, rw_in, rw_out, rw_out2,
    \* the cache key generator applied to two requests
    ky_pc, ky_reqA, ky_reqB, ky_keyA, ky_keyB,
    \* the proxy: which source variant of routes/contentful.ts is deployed,
    \* whether CONTENTFUL_SPACE_ID and CONTENTFUL_ACCESS_TOKEN are both set,
    \* the resource kind the requests of this run address, the clock (in
    \* seconds) as the last step read it and the number of times it was
    \* found advanced, the NodeCache store,
    \* the requests in flight, the request the last step answered (none if
    \* it answered none) and the number of requests received
    variant, configured, kind, now, ticks, cache, req, last, started,
    \* the rate limiter in front of the routes: its store (per IP, the
    \* requests counted in the current window and the time the window ends),
    \* what the last step's arrivals came to, and a history of the requests
    \* of each IP that reached a route handler
    lm_store, lm_last, lm_log,
    \* how the limiter's store lays out its windows: one series of windows
    \* for all IPs since the start of the process, or for each IP a window
    \* that starts with its first request counted (the store of the
    \* express-rate-limit release installed decides)
    lm_windows,
    \* the router: for the request that arrived in the last step, the mount
    \* point it came in by, the layers of the router's stack that match its
    \* route and the layers whose handler ran
    rt_last

rw_vars == <<rw_pc, rw_in, rw_out, rw_out2>>
ky_vars == <<ky_pc, ky_reqA, ky_reqB, ky_keyA, ky_keyB>>
px_vars == <<variant, configured, kind, now, ticks, cache, req, last, started>>
lm_vars == <<lm_store, lm_last, lm_log, lm_windows>>
rt_vars == <<rt_last>>
vars == <<rw_pc, rw_in, rw_out, rw_out2, ky_pc, ky_reqA, ky_reqB, ky_keyA, ky_keyB,
          variant, configured, kind, now, ticks, cache, req, last, started,
          lm_store, lm_last, lm_log, lm_windows, rt_last>>

----------------------------------------------------------------------------
(* Bounds of the model.                                                    *)

\* longest string (in fragments) the rewriter is applied to
MaxStrLen == 6
\* longest sequence inside a JSON value the rewriter is applied to
MaxArrLen == 2
\* number of requests a run of the proxy receives
MaxRequests == 2
\* number of steps of a run of the proxy that find the clock advanced
MaxTicks == 1

----------------------------------------------------------------------------
(* JSON values, as the tagged union the rewriter dispatches on.            *)

JNull == [t |-> "null"]
JUndefined == [t |-> "undefined"]
JBool(b) == [t |-> "boolean", v |-> b]
JNum(n) == [t |-> "number", v |-> n]
JStr(s) == [t |-> "string", v |-> s]
JArr(a) == [t |-> "array", v |-> a]
JObj(o) == [t |-> "object", v |-> o]

\* the regular expression /images\.ctfassets\.net/g: a literal host name
UpstreamHost == <<"images.", "ctfassets", ".net">>
\* the replacement 'images.soundtools.com'
PublicHost == <<"images.", "soundtools", ".com">>

IsPrefixAt(p, s, i) ==
    /\ i + Len(p) - 1 <= Len(s)
    /\ \A j \in 1..Len(p) : s[i + j - 1] = p[j]

\* the positions of s at which the upstream host name occurs
Occurrences(s) == {i \in 1..Len(s) : IsPrefixAt(UpstreamHost, s, i)}

ContainsUpstreamHost(s) == Occurrences(s) # {}

\* String.prototype.replace with a pattern that has no g flag: the first
\* match only
replaceFirstOnly(s) ==
    IF Occurrences(s) = {} THEN s
    ELSE LET i == CHOOSE k \in Occurrences(s) : \A m \in Occurrences(s) : k <= m
         IN  SubSeq(s, 1, i - 1) \o PublicHost
                \o SubSeq(s, i + Len(UpstreamHost), Len(s))

\* data.replace(/images\.ctfassets\.net/g, 'images.soundtools.com'): scan
\* from the left, replace every match, resume after the match
RECURSIVE replaceHost(_)
replaceHost(s) ==
    IF s = <<>> THEN <<>>
    ELSE IF IsPrefixAt(UpstreamHost, s, 1)
         THEN PublicHost \o replaceHost(SubSeq(s, Len(UpstreamHost) + 1, Len(s)))
         ELSE <<Head(s)>> \o replaceHost(Tail(s))

RECURSIVE transformContentfulUrls(_)

\* a rewriter that also rewrites the keys of a mapping
transformKeysToo(data) ==
    IF data.t \in {"null", "undefined"} THEN data
    ELSE IF data.t = "string" THEN JStr(replaceHost(data.v))
    ELSE IF data.t = "array"
         THEN JArr([i \in 1..Len(data.v) |-> transformContentfulUrls(data.v[i])])
    ELSE IF data.t = "object"
         THEN JObj([k \in {replaceHost(key) : key \in DOMAIN data.v} |->
                      LET key == CHOOSE c \in DOMAIN data.v : replaceHost(c) = k
                      IN  transformContentfulUrls(data.v[key])])
    ELSE data

transformContentfulUrls(data) ==
    IF data.t \in {"null", "undefined"} THEN data
    ELSE IF data.t = "string" THEN JStr(replaceHost(data.v))
    ELSE IF data.t = "array"
         THEN JArr([i \in 1..Len(data.v) |-> transformContentfulUrls(data.v[i])])
    ELSE IF data.t = "object"
         THEN JObj([k \in DOMAIN data.v |-> transformContentfulUrls(data.v[k])])
    ELSE data

\* whether some string leaf of a JSON value holds the upstream host name
RECURSIVE HasUpstreamHost(_)
HasUpstreamHost(data) ==
    IF data.t = "string" THEN ContainsUpstreamHost(data.v)
    ELSE IF data.t = "array"
         THEN \E i \in 1..Len(data.v) : HasUpstreamHost(data.v[i])
    ELSE IF data.t = "object"
         THEN \E k \in DOMAIN data.v : HasUpstreamHost(data.v[k])
    ELSE FALSE

----------------------------------------------------------------------------
(* Query parameters and the cache key generator.                           *)

\* req.query: the parameters in the order of their first appearance in the
\* URL, as a sequence of <<name, value>> with distinct names.  A value is a
\* string (?a=1), an array of strings (?a=1&a=2) or a nested mapping
\* (?a[c]=1).
QStr(s) == [t |-> "string", v |-> s]
QArr(a) == [t |-> "array", v |-> a]
QObj(o) == [t |-> "object", v |-> o]

RECURSIVE Join(_, _)
Join(seqs, sep) ==
    IF seqs = <<>> THEN <<>>
    ELSE IF Len(seqs) = 1 THEN seqs[1]
    ELSE seqs[1] \o sep \o Join(Tail(seqs), sep)

\* the conversion of a parameter value to a string that the URLSearchParams
\* constructor applies: a string is itself, an array is its elements joined
\* by commas, any other object is "[object Object]"
ToUSVString(value) ==
    IF value.t = "string" THEN value.v
    ELSE IF value.t = "array" THEN Join(value.v, <<",">>)
    ELSE <<"[", "object", " ", "Object", "]">>

\* application/x-www-form-urlencoded percent-encoding of one character
PercentEncode(c) ==
    IF c = "," THEN "%2C"
    ELSE IF c = ":" THEN "%3A"
    ELSE IF c = "=" THEN "%3D"
    ELSE IF c = "[" THEN "%5B"
    ELSE IF c = "]" THEN "%5D"
    ELSE IF c = "&" THEN "%26"
    ELSE IF c = "/" THEN "%2F"
    ELSE IF c = " " THEN "+"
    ELSE c

EncodeString(s) == [i \in 1..Len(s) |-> PercentEncode(s[i])]

\* new URLSearchParams(query).toString(): name=value pairs joined by &, in
\* the order of the object's own keys
URLSearchParamsToString(query) ==
    Join([i \in 1..Len(query) |->
            EncodeString(query[i][1]) \o <<"=">> \o EncodeString(ToUSVString(query[i][2]))],
         <<"&">>)

\* a key generator that leaves the query part out when there is no parameter
generateCacheKeyOmittingEmpty(path, query) ==
    IF query = <<>> THEN <<"contentful", ":">> \o path
    ELSE <<"contentful", ":">> \o path \o <<":">> \o URLSearchParamsToString(query)

\* `contentful:${path}:${queryString}`
generateCacheKey(path, query) ==
    <<"contentful", ":">> \o path \o <<":">> \o URLSearchParamsToString(query)

----------------------------------------------------------------------------
(* req.query: the query string of the request's URL as Express parses it.  *)
(* A URL is [kind, id, question, search]: question says whether the URL    *)
(* has a ?, search is what follows it, in fragments.                       *)

Url(resourceKind, id, question, search) ==
    [kind |-> resourceKind, id |-> id, question |-> question, search |-> search]

\* the first position of fragment c in s, 0 if there is none
IndexOf(s, c) ==
    IF \E i \in 1..Len(s) : s[i] = c
    THEN CHOOSE i \in 1..Len(s) : s[i] = c /\ \A j \in 1..(i - 1) : s[j] # c
    ELSE 0

RECURSIVE SplitOn(_, _)
SplitOn(s, sep) ==
    IF IndexOf(s, sep) = 0 THEN <<s>>
    ELSE <<SubSeq(s, 1, IndexOf(s, sep) - 1)>>
            \o SplitOn(SubSeq(s, IndexOf(s, sep) + 1, Len(s)), sep)

\* a part name=value of the query string; a part without = has the value ''
ParamOf(part) ==
    IF IndexOf(part, "=") = 0 THEN <<part, <<>>>>
    ELSE <<SubSeq(part, 1, IndexOf(part, "=") - 1),
           SubSeq(part, IndexOf(part, "=") + 1, Len(part))>>

\* a parameter is added to the query object: a name seen before makes its
\* value the array of the values, in their order
AddParam(query, param) ==
    IF \E i \in 1..Len(query) : query[i][1] = param[1]
    THEN LET i == CHOOSE k \in 1..Len(query) : query[k][1] = param[1]
         IN  [query EXCEPT ![i] =
                 <<param[1],
                   IF query[i][2].t = "string" THEN QArr(<<query[i][2].v, param[2]>>)
                   ELSE QArr(Append(query[i][2].v, param[2]))>>]
    ELSE Append(query, <<param[1], QStr(param[2])>>)

RECURSIVE AddParams(_, _)
AddParams(query, parts) ==
    IF parts = <<>> THEN query
    ELSE AddParams(IF Head(parts) = <<>> THEN query
                   ELSE AddParam(query, ParamOf(Head(parts))),
                   Tail(parts))

\* req.query: the empty object for a URL without ? and for a URL with
\* nothing after it; empty parts are skipped
expressQuery(url) ==
    IF ~url.question THEN <<>> ELSE AddParams(<<>>, SplitOn(url.search, "&"))

----------------------------------------------------------------------------
(* The routes of the resource handlers.  A request is                      *)
(* [kind, full, spaceId, environment, id, query]: full says whether it     *)
(* came in on a /spaces/:spaceId/environments/:environment/... route       *)
(* (variant 1 only); id is the :entryId or :assetId of a single-item       *)
(* route and empty on a list route.                                        *)

Kinds == {"entries", "entry", "assets", "asset", "content_types"}

IsItemKind(resourceKind) == resourceKind \in {"entry", "asset"}

\* the collection segment of a kind: entries, assets or content_types
Collection(resourceKind) ==
    IF resourceKind \in {"entries", "entry"} THEN "entries"
    ELSE IF resourceKind \in {"assets", "asset"} THEN "assets"
    ELSE "content_types"

\* the path given to generateCacheKey: 'entries', `entries/${entryId}`,
\* `spaces/${spaceId}/environments/${environment}/entries`, ...
handlerPath(request) ==
    (IF request.full
     THEN <<"spaces", "/">> \o request.spaceId \o <<"/", "environments", "/">>
            \o request.environment \o <<"/">>
     ELSE <<>>)
      \o <<Collection(request.kind)>>
      \o (IF IsItemKind(request.kind) THEN <<"/">> \o request.id ELSE <<>>)

\* an upstream path that follows the inbound path
upstreamPathOfRoute(request) == <<"/">> \o handlerPath(request)

\* the path given to contentfulClient.get: '/entries', `/entries/${entryId}`, ...
upstreamPath(request) ==
    <<"/", Collection(request.kind)>>
      \o (IF IsItemKind(request.kind) THEN <<"/">> \o request.id ELSE <<>>)

\* the message of an upstream error response when the upstream gave none
fallbackMessage(resourceKind) ==
    IF resourceKind = "entries" THEN "Failed to fetch entries"
    ELSE IF resourceKind = "entry" THEN "Failed to fetch entry"
    ELSE IF resourceKind = "assets" THEN "Failed to fetch assets"
    ELSE IF resourceKind = "asset" THEN "Failed to fetch asset"
    ELSE "Failed to fetch content types"

ShortRequest(resourceKind, id, query) ==
    [kind |-> resourceKind, full |-> FALSE, spaceId |-> <<>>, environment |-> <<>>,
     id |-> (IF IsItemKind(resourceKind) THEN id ELSE <<>>), query |-> query]

FullRequest(resourceKind, spaceId, environment, id, query) ==
    [kind |-> resourceKind, full |-> TRUE, spaceId |-> spaceId, environment |-> environment,
     id |-> (IF IsItemKind(resourceKind) THEN id ELSE <<>>), query |-> query]

----------------------------------------------------------------------------
(* The requests the cache key generator is applied to.                     *)

KeyQueryNames == {<<"a">>, <<"b">>}

KeyQueryValues ==
    {QStr(<<"1">>), QStr(<<"1", ",", "2">>), QArr(<<<<"1">>, <<"2">>>>),
     QObj([n \in {<<"c">>} |-> <<"1">>]), QObj([n \in {<<"c">>} |-> <<"2">>])}

\* query objects of up to two parameters, in either order of appearance
KeyQueries ==
    {<<>>}
      \cup {<<<<n, v>>>> : n \in KeyQueryNames, v \in KeyQueryValues}
      \cup {<<<<n1, v1>>, <<n2, v2>>>> :
              <<n1, n2>> \in {p \in KeyQueryNames \X KeyQueryNames : p[1] # p[2]},
              <<v1, v2>> \in KeyQueryValues \X KeyQueryValues}

\* item identifiers, some holding the separator of the cache key
KeyIds == {<<"x">>, <<"x", ":">>, <<"x", ":", "a", "=", "1">>}

KeyRequests ==
    {ShortRequest("entries", <<>>, q) : q \in KeyQueries}
      \cup {ShortRequest("entry", id, q) : id \in KeyIds, q \in KeyQueries}

\* the query strings of the URLs the requests come in with
KeySearches ==
    {<<>>, <<"a", "=", "1">>, <<"a">>, <<"a", "=", "1", "&", "b", "=", "2">>,
     <<"b", "=", "2", "&", "a", "=", "1">>, <<"a", "=", "1", "&", "a", "=", "2">>,
     <<"&", "a", "=", "1">>}

\* /entries and /entries/x, without ?, with a bare ? and with a query string
KeyUrls ==
    {Url(k, <<"x">>, FALSE, <<>>) : k \in {"entries", "entry"}}
      \cup {Url(k, <<"x">>, TRUE, q) : k \in {"entries", "entry"}, q \in KeySearches}

\* the parameters of a query as a set: what is asked, whatever the order
ParamSet(query) == {query[i] : i \in 1..Len(query)}

----------------------------------------------------------------------------
(* The JSON values the rewriter is applied to.                             *)

Fragments == {"images.", "ctfassets", ".net", "x"}

SeqsUpTo(S, n) == UNION {[1..k -> S] : k \in 0..n}

JsonScalars == {JNull, JUndefined, JBool(TRUE), JBool(FALSE), JNum(0), JNum(1)}

JsonStrings == {JStr(s) : s \in SeqsUpTo(Fragments, MaxStrLen)}

SmallStrings ==
    {JStr(<<>>), JStr(<<"x">>), JStr(UpstreamHost), JStr(<<"x">> \o UpstreamHost),
     JStr(UpstreamHost \o UpstreamHost), JStr(<<"images.", "ctfassets">>)}

\* keys of mappings: one of them holds the upstream host name
ObjKeys == {<<"url">>, <<"x">> \o UpstreamHost}

ObjectsOver(E) ==
    UNION {{JObj(o) : o \in [D -> E]} : D \in SUBSET ObjKeys}

ArraysOver(E) == {JArr(a) : a \in SeqsUpTo(E, MaxArrLen)}

JsonElems1 == {JNull, JNum(1), JBool(FALSE)} \cup SmallStrings

JsonElems2 ==
    {JNull, JNum(0)}
      \cup {JArr(<<s>>) : s \in SmallStrings}
      \cup {JObj([k \in {key} |-> s]) : key \in ObjKeys, s \in SmallStrings}

\* Scenario A's upstream payload:
\* {"sys":{"id":"abc"},"fields":{"image":{"url":"https://images.ctfassets.net/pic.png"}}}
ScenarioPayload ==
    JObj([k \in {<<"sys">>, <<"fields">>} |->
        IF k = <<"sys">>
        THEN JObj([i \in {<<"id">>} |-> JStr(<<"abc">>)])
        ELSE JObj([i \in {<<"image">>} |->
                 JObj([u \in {<<"url">>} |->
                     JStr(<<"https://">> \o UpstreamHost \o <<"/pic.png">>)])])])

JsonInputs ==
    JsonScalars \cup JsonStrings
      \cup ArraysOver(JsonElems1) \cup ObjectsOver(JsonElems1)
      \cup ArraysOver(JsonElems2) \cup ObjectsOver(JsonElems2)
      \cup {ScenarioPayload}

----------------------------------------------------------------------------
(* The NodeCache store: const cache = new NodeCache({ stdTTL: 432000 }).   *)
(* An entry is {v, t}: the value and the time after which it is expired.   *)
(* src is a history field: the upstream payload whose fetch wrote it.      *)

\* the time to live of every entry, in seconds
stdTTL == 432000

Entry(value, expires, src) == [v |-> value, t |-> expires, src |-> src]

NoEntry == Entry(JUndefined, 0, JUndefined)

EmptyCache == [data |-> <<>>, hits |-> 0, misses |-> 0]

\* a flush that leaves the store as it is
cacheFlushNothing(c) == c

\* a store whose entries never expire
isExpiredNever(entry, time) == FALSE

\* the check get applies to a stored entry: it is expired once the clock
\* is past its time
isExpired(entry, time) == entry.t # 0 /\ entry.t < time

Without(data, key) == [k \in (DOMAIN data) \ {key} |-> data[k]]

\* a store with sliding expiry: a get that finds an entry gives it a new
\* time to live
cacheGetSliding(c, key, time) ==
    IF key \in DOMAIN c.data /\ ~isExpired(c.data[key], time)
    THEN [value |-> c.data[key].v, entry |-> c.data[key],
          cache |-> [c EXCEPT !.hits = @ + 1, !.data[key].t = time + stdTTL]]
    ELSE [value |-> JUndefined,
          entry |-> IF key \in DOMAIN c.data THEN c.data[key] ELSE NoEntry,
          cache |-> [c EXCEPT !.misses = @ + 1, !.data = Without(c.data, key)]]

\* cache.get(key): the value of a stored entry that is not expired, and a
\* hit; otherwise undefined and a miss, and an expired entry is deleted
cacheGet(c, key, time) ==
    IF key \in DOMAIN c.data /\ ~isExpired(c.data[key], time)
    THEN [value |-> c.data[key].v, entry |-> c.data[key],
          cache |-> [c EXCEPT !.hits = @ + 1]]
    ELSE [value |-> JUndefined,
          entry |-> IF key \in DOMAIN c.data THEN c.data[key] ELSE NoEntry,
          cache |-> [c EXCEPT !.misses = @ + 1, !.data = Without(c.data, key)]]

\* cache.set(key, value): insert or replace, expiring stdTTL from now
cacheSet(c, key, value, time, src) ==
    [c EXCEPT !.data = [k \in (DOMAIN c.data) \cup {key} |->
                          IF k = key THEN Entry(value, time + stdTTL, src)
                          ELSE c.data[k]]]

\* cache.flushAll(): no entries, and the counters start again
cacheFlushAll(c) == EmptyCache

\* the store's periodic check: every expired entry is deleted
cacheCheckData(c, time) ==
    [c EXCEPT !.data = [k \in {x \in DOMAIN c.data : ~isExpired(c.data[x], time)} |->
                          c.data[k]]]

\* cache.getStats()
cacheGetStats(c) ==
    [hits |-> c.hits, misses |-> c.misses, keys |-> Cardinality(DOMAIN c.data)]

----------------------------------------------------------------------------
(* What the upstream call of a request ends with: a response with a 2xx    *)
(* status and a JSON body (success); a response with another status, whose *)
(* body may carry a message (error.response is set); or no response at     *)
(* all, the error carrying only its own text in detail.                    *)

Outcome(type, status, hasMessage, message, detail, data) ==
    [type |-> type, status |-> status, hasMessage |-> hasMessage,
     message |-> message, detail |-> detail, data |-> data]

NoOutcome == Outcome("none", 0, FALSE, "", "", JUndefined)

\* Scenario A's payload, a payload without the upstream host name, and a
\* payload that is falsy in JavaScript
ProxyPayloads == {ScenarioPayload, JArr(<<JStr(<<"x">>)>>), JNum(0)}

ErrorStatuses == {404, 500}

Successes == {Outcome("success", 200, FALSE, "", "", p) : p \in ProxyPayloads}

\* error.response.data?.message is undefined, empty or a text
ErrorResponses ==
    {Outcome("response", s, FALSE, "", "Request failed", JUndefined) : s \in ErrorStatuses}
      \cup {Outcome("response", s, TRUE, m, "Request failed", JUndefined) :
              s \in ErrorStatuses, m \in {"", "Not found"}}

NoResponses ==
    {Outcome("noresponse", 0, FALSE, "", d, JUndefined) :
        d \in {"timeout of 10000ms exceeded", "connect ECONNREFUSED"}}

\* without credentials the client calls /spaces/undefined with the token
\* "undefined": the upstream answers no such call with success
UpstreamOutcomes(isConfigured) ==
    (IF isConfigured THEN Successes ELSE {}) \cup ErrorResponses \cup NoResponses

----------------------------------------------------------------------------
(* Responses: res.status(status).json(body).  A body is either the JSON    *)
(* data or {error, message, status}; bodyStatus is 0 when the body has no  *)
(* status field.                                                           *)

Response(status, error, message, bodyStatus, data) ==
    [status |-> status, error |-> error, message |-> message,
     bodyStatus |-> bodyStatus, data |-> data]

NoResponse == Response(0, "", "", 0, JUndefined)

okResponse(data) == Response(200, "", "", 0, data)

configErrorResponse ==
    Response(500, "Server Configuration Error", "Contentful client not configured",
             0, JUndefined)

\* an error response that hands the error's own text to the client
connectErrorResponseWithDetail(error) ==
    Response(500, "Internal Server Error", error.detail, 0, JUndefined)

\* the else branch of the catch block
connectErrorResponse(error) ==
    Response(500, "Internal Server Error", "Failed to connect to Contentful API",
             0, JUndefined)

\* an error response that always answers 500
upstreamErrorResponseAs500(resourceKind, error) ==
    Response(500, "Contentful API Error",
             IF error.hasMessage /\ error.message # "" THEN error.message
             ELSE fallbackMessage(resourceKind),
             error.status, JUndefined)

\* the if (error.response) branch of the catch block:
\* message: error.response.data?.message || 'Failed to fetch ...'
upstreamErrorResponse(resourceKind, error) ==
    Response(error.status, "Contentful API Error",
             IF error.hasMessage /\ error.message # "" THEN error.message
             ELSE fallbackMessage(resourceKind),
             error.status, JUndefined)

\* the catch block of a resource handler
catchResponse(resourceKind, error) ==
    IF error.type = "response" THEN upstreamErrorResponse(resourceKind, error)
    ELSE connectErrorResponse(error)

\* if (cachedData): the truthiness of a JavaScript value
Truthy(data) ==
    IF data.t \in {"null", "undefined"} THEN FALSE
    ELSE IF data.t = "boolean" THEN data.v
    ELSE IF data.t = "number" THEN data.v # 0
    ELSE IF data.t = "string" THEN data.v # <<>>
    ELSE TRUE

\* createContentfulClient() returns a client unless CONTENTFUL_SPACE_ID or
\* CONTENTFUL_ACCESS_TOKEN is missing
createContentfulClient == configured

CONTENTFUL_API_BASE == <<"https://cdn.contentful.com">>

\* process.env.CONTENTFUL_SPACE_ID as the template literal of baseURL
\* renders it: the space the proxy is configured for, or "undefined"
CONTENTFUL_SPACE_ID == IF configured THEN <<"s1">> ELSE <<"undefined">>

\* baseURL: `${CONTENTFUL_API_BASE}/spaces/${CONTENTFUL_SPACE_ID}`
baseURL == CONTENTFUL_API_BASE \o <<"/spaces/">> \o CONTENTFUL_SPACE_ID

\* a call that leaves the query parameters behind
contentfulClientGetWithoutParams(path, params) ==
    [baseURL |-> baseURL, path |-> path, params |-> <<>>]

\* contentfulClient.get(path, { params }): the call as the client is given it
contentfulClientGet(path, params) ==
    [baseURL |-> baseURL, path |-> path, params |-> params]

----------------------------------------------------------------------------
(* The requests in flight.  A handler runs without interruption from the   *)
(* arrival of its request to its response or to the await of the upstream  *)
(* call, and again from the end of that call to its response.              *)

Slots == {"r1", "r2"}

NoRequest ==
    [kind |-> "none", full |-> FALSE, spaceId |-> <<>>, environment |-> <<>>,
     id |-> <<>>, query |-> <<>>]

NoCall == [baseURL |-> <<>>, path |-> <<>>, params |-> <<>>]

\* pc: idle, await (suspended on the upstream call), done (responded: the
\* request's slot is idle again, and last holds the answered request until
\* the next step) or admin (last holds an answered cache/clear or
\* cache/stats request);
\* probe: none, hit or miss (what the handler made of cache.get); of a
\* cache/clear request, flushed when the store held an entry, else empty;
\* entry: the entry cache.get found under the key, expired or not, NoEntry
\* if none; at: the clock as cache.get read it;
\* calls: the upstream calls issued; sent: the call; upstream: its outcome;
\* response: the response sent
Slot(pc, request, cacheKey, probe, entry, calls, sent, upstream, response, at) ==
    [pc |-> pc, request |-> request, cacheKey |-> cacheKey, probe |-> probe,
     entry |-> entry, calls |-> calls, sent |-> sent, upstream |-> upstream,
     response |-> response, at |-> at]

IdleSlot == Slot("idle", NoRequest, <<>>, "none", NoEntry, 0, NoCall, NoOutcome, NoResponse, 0)

\* the time since the last step that read the clock: none, the time to
\* live of an entry, or one second more
Delays == {0, stdTTL, stdTTL + 1}

\* a step reads the clock, d seconds after the last step that read it
Elapse(d) ==
    /\ d \in Delays
    /\ d # 0 => ticks < MaxTicks
    /\ now' = now + d
    /\ ticks' = IF d = 0 THEN ticks ELSE ticks + 1

\* a request is taken into the first idle slot
FirstIdle(r) ==
    /\ req[r].pc = "idle"
    /\ \A o \in Slots : req[o].pc = "idle" => (r = o \/ r = "r1")

ProxyQueries == {<<>>, <<<<<<"a">>, QStr(<<"1">>)>>>>}

Spaces == {<<"s1">>, <<"s2">>}

\* the requests of a run address one resource kind: on its short route
\* and, in variant 1, on its full-path route
RequestsV2(resourceKind) ==
    {ShortRequest(resourceKind, <<"x">>, q) : q \in ProxyQueries}

RequestsV1(resourceKind) ==
    {ShortRequest(resourceKind, <<"x">>, q) : q \in ProxyQueries}
      \cup {FullRequest(resourceKind, s, <<"master">>, <<"x">>, <<>>) : s \in Spaces}

\* the environments named by the inbound full paths
Environments == {<<"master">>, <<"staging">>}

\* the requests of the full-path routes of variant 1
FullPathRequests(resourceKind) ==
    {FullRequest(resourceKind, s, e, <<"x">>, <<>>) : s \in Spaces, e \in Environments}

\* every request that the routes of variant 1 take for a resource kind
RoutedV1(resourceKind) == RequestsV1(resourceKind) \cup FullPathRequests(resourceKind)

\* variant 1 on a hit: res.json(transformContentfulUrls(cachedData))
hitBodyV1(cachedData) == transformContentfulUrls(cachedData)

\* a hit path that rewrites what a miss path stored and sent unrewritten
hitBodyRewritten(cachedData) == transformContentfulUrls(cachedData)

\* variant 2 on a hit: res.json(cachedData)
hitBodyV2(cachedData) == cachedData

\* variant 1 on a miss: const transformedData = transformContentfulUrls(response.data)
missBodyV1(data) == transformContentfulUrls(data)

\* variant 2 on a miss: response.data is stored and sent as it came
missBodyV2(data) == data

\* a handler of variant 1, from the request to its response or to the await
\* of contentfulClient.get
HandleRequestV1(r, request, d) ==
    /\ variant = 1
    /\ Elapse(d)
    /\ FirstIdle(r)
    /\ started < MaxRequests
    /\ request \in RoutedV1(kind)
    /\ started' = started + 1
    /\ IF ~createContentfulClient
       THEN /\ d = 0    \* no clock is read
            /\ last' = Slot("done", request, <<>>, "none", NoEntry, 0, NoCall, NoOutcome,
                            configErrorResponse, now')
            /\ UNCHANGED <<cache, req>>
       ELSE LET cacheKey == generateCacheKey(handlerPath(request), request.query)
                got == cacheGet(cache, cacheKey, now')
            IN  /\ cache' = got.cache
                /\ IF Truthy(got.value)
                   THEN /\ last' = Slot("done", request, cacheKey, "hit", got.entry, 0,
                                        NoCall, NoOutcome,
                                        okResponse(hitBodyV1(got.value)), now')
                        /\ req' = req
                   ELSE /\ req' = [req EXCEPT ![r] =
                              Slot("await", request, cacheKey, "miss", got.entry, 1,
                                   contentfulClientGet(upstreamPath(request), request.query),
                                   NoOutcome, NoResponse, now')]
                        /\ last' = IdleSlot
    /\ UNCHANGED <<variant, configured, kind, rw_vars, ky_vars>>

\* a handler whose catch block logs the error and sends nothing
ResumeV1Silent(r, outcome, d) ==
    /\ variant = 1
    /\ Elapse(d)
    /\ outcome.type # "success" => d = 0
    /\ req[r].pc = "await"
    /\ outcome \in UpstreamOutcomes(configured)
    /\ IF outcome.type = "success"
       THEN LET transformedData == missBodyV1(outcome.data)
            IN  /\ cache' = cacheSet(cache, req[r].cacheKey, transformedData, now',
                                     outcome.data)
                /\ last' = [req[r] EXCEPT !.pc = "done", !.upstream = outcome,
                                          !.response = okResponse(transformedData)]
                /\ req' = [req EXCEPT ![r] = IdleSlot]
       ELSE /\ cache' = cache
            /\ last' = IdleSlot
            /\ req' = [req EXCEPT ![r] = IdleSlot]
    /\ UNCHANGED <<variant, configured, kind, started, rw_vars, ky_vars, lm_vars, rt_vars>>

\* a handler that calls the upstream a second time when the first call got
\* no response
ResumeV1Retrying(r, outcome, d) ==
    /\ variant = 1
    /\ Elapse(d)
    /\ outcome.type # "success" => d = 0
    /\ req[r].pc = "await"
    /\ outcome \in UpstreamOutcomes(configured)
    /\ IF outcome.type = "success"
       THEN LET transformedData == missBodyV1(outcome.data)
            IN  /\ cache' = cacheSet(cache, req[r].cacheKey, transformedData, now',
                                     outcome.data)
                /\ last' = [req[r] EXCEPT !.pc = "done", !.upstream = outcome,
                                          !.response = okResponse(transformedData)]
                /\ req' = [req EXCEPT ![r] = IdleSlot]
       ELSE /\ cache' = cache
            /\ IF outcome.type = "noresponse" /\ req[r].calls < 2
               THEN /\ req' = [req EXCEPT ![r].calls = @ + 1]
                    /\ last' = IdleSlot
               ELSE /\ req' = [req EXCEPT ![r] = IdleSlot]
                    /\ last' = [req[r] EXCEPT !.pc = "done", !.upstream = outcome,
                                      !.response = catchResponse(req[r].request.kind,
                                                                 outcome)]
    /\ UNCHANGED <<variant, configured, kind, started, rw_vars, ky_vars, lm_vars, rt_vars>>

\* a handler without the catch block: a failed upstream call leaves the
\* request without a response for ever
ResumeV1Uncaught(r, outcome, d) ==
    /\ variant = 1
    /\ Elapse(d)
    /\ outcome.type # "success" => d = 0
    /\ req[r].pc = "await"
    /\ outcome \in UpstreamOutcomes(configured)
    /\ IF outcome.type = "success"
       THEN LET transformedData == missBodyV1(outcome.data)
            IN  /\ cache' = cacheSet(cache, req[r].cacheKey, transformedData, now',
                                     outcome.data)
                /\ last' = [req[r] EXCEPT !.pc = "done", !.upstream = outcome,
                                          !.response = okResponse(transformedData)]
                /\ req' = [req EXCEPT ![r] = IdleSlot]
       ELSE /\ cache' = cache
            /\ last' = IdleSlot
            /\ req' = [req EXCEPT ![r].pc = "hung"]
    /\ UNCHANGED <<variant, configured, kind, started, rw_vars, ky_vars, lm_vars, rt_vars>>

\* a handler that stores what the upstream answered, errors too
ResumeV1CachingErrors(r, outcome, d) ==
    /\ variant = 1
    /\ Elapse(d)
    /\ outcome.type # "success" => d = 0
    /\ req[r].pc = "await"
    /\ outcome \in UpstreamOutcomes(configured)
    /\ IF outcome.type = "success"
       THEN LET transformedData == missBodyV1(outcome.data)
            IN  /\ cache' = cacheSet(cache, req[r].cacheKey, transformedData, now',
                                     outcome.data)
                /\ last' = [req[r] EXCEPT !.pc = "done", !.upstream = outcome,
                                          !.response = okResponse(transformedData)]
                /\ req' = [req EXCEPT ![r] = IdleSlot]
       ELSE /\ cache' = cacheSet(cache, req[r].cacheKey, outcome.data, now', outcome.data)
            /\ last' = [req[r] EXCEPT !.pc = "done", !.upstream = outcome,
                                      !.response = catchResponse(req[r].request.kind,
                                                                 outcome)]
            /\ req' = [req EXCEPT ![r] = IdleSlot]
    /\ UNCHANGED <<variant, configured, kind, started, rw_vars, ky_vars, lm_vars, rt_vars>>

\* a handler of variant 1, from the end of the upstream call to its response
ResumeV1(r, outcome, d) ==
    /\ variant = 1
    /\ Elapse(d)
    /\ outcome.type # "success" => d = 0    \* the catch block reads no clock
    /\ req[r].pc = "await"
    /\ outcome \in UpstreamOutcomes(configured)
    /\ IF outcome.type = "success"
       THEN LET transformedData == missBodyV1(outcome.data)
            IN  /\ cache' = cacheSet(cache, req[r].cacheKey, transformedData, now',
                                     outcome.data)
                /\ last' = [req[r] EXCEPT !.pc = "done", !.upstream = outcome,
                                          !.response = okResponse(transformedData)]
       ELSE /\ cache' = cache
            /\ last' = [req[r] EXCEPT !.pc = "done", !.upstream = outcome,
                                      !.response = catchResponse(req[r].request.kind,
                                                                 outcome)]
    /\ req' = [req EXCEPT ![r] = IdleSlot]
    /\ UNCHANGED <<variant, configured, kind, started, rw_vars, ky_vars, lm_vars, rt_vars>>

\* a handler of variant 2, from the request to its response or to the await
\* of contentfulClient.get: the client exists whatever the configuration
HandleRequestV2(r, request, d) ==
    /\ variant = 2
    /\ Elapse(d)
    /\ FirstIdle(r)
    /\ started < MaxRequests
    /\ request \in RequestsV2(kind)
    /\ started' = started + 1
    /\ LET cacheKey == generateCacheKey(handlerPath(request), request.query)
           got == cacheGet(cache, cacheKey, now')
       IN  /\ cache' = got.cache
           /\ IF Truthy(got.value)
              THEN /\ last' = Slot("done", request, cacheKey, "hit", got.entry, 0,
                                   NoCall, NoOutcome,
                                   okResponse(hitBodyV2(got.value)), now')
                   /\ req' = req
              ELSE /\ req' = [req EXCEPT ![r] =
                         Slot("await", request, cacheKey, "miss", got.entry, 1,
                              contentfulClientGet(upstreamPath(request), request.query),
                              NoOutcome, NoResponse, now')]
                   /\ last' = IdleSlot
    /\ UNCHANGED <<variant, configured, kind, rw_vars, ky_vars>>

\* a handler of variant 2, from the end of the upstream call to its response
ResumeV2(r, outcome, d) ==
    /\ variant = 2
    /\ Elapse(d)
    /\ outcome.type # "success" => d = 0    \* the catch block reads no clock
    /\ req[r].pc = "await"
    /\ outcome \in UpstreamOutcomes(configured)
    /\ IF outcome.type = "success"
       THEN /\ cache' = cacheSet(cache, req[r].cacheKey, missBodyV2(outcome.data), now',
                                 outcome.data)
            /\ last' = [req[r] EXCEPT !.pc = "done", !.upstream = outcome,
                                      !.response = okResponse(missBodyV2(outcome.data))]
       ELSE /\ cache' = cache
            /\ last' = [req[r] EXCEPT !.pc = "done", !.upstream = outcome,
                                      !.response = catchResponse(req[r].request.kind,
                                                                 outcome)]
    /\ req' = [req EXCEPT ![r] = IdleSlot]
    /\ UNCHANGED <<variant, configured, kind, started, rw_vars, ky_vars, lm_vars, rt_vars>>

\* a request to one of the cache endpoints
AdminRequest(name) ==
    [kind |-> name, full |-> FALSE, spaceId |-> <<>>, environment |-> <<>>,
     id |-> <<>>, query |-> <<>>]

\* res.json({ message: 'Cache cleared successfully', timestamp })
clearResponse == Response(200, "", "Cache cleared successfully", 0, JUndefined)

\* res.json({ stats, timestamp }): the stats object, without the timestamp
statsResponse(stats) ==
    Response(200, "", "", 0,
             JObj([k \in {<<"hits">>, <<"misses">>, <<"keys">>} |->
                     JNum(IF k = <<"hits">> THEN stats.hits
                          ELSE IF k = <<"misses">> THEN stats.misses
                          ELSE stats.keys)]))

\* a clear that also gives up the requests suspended on their upstream call
ClearCacheCancelling ==
    /\ cache' = cacheFlushAll(cache)
    /\ last' = Slot("admin", AdminRequest("cache_clear"), <<>>,
                    IF DOMAIN cache.data # {} THEN "flushed" ELSE "empty",
                    NoEntry, 0, NoCall, NoOutcome, clearResponse, now)
    /\ req' = [r \in Slots |-> IdleSlot]
    /\ UNCHANGED <<variant, configured, kind, now, ticks, started, rw_vars, ky_vars, lm_vars, rt_vars>>

\* GET /cache/clear (variant 1), DELETE /cache (variant 2): cache.flushAll()
ClearCache ==
    /\ cache' = cacheFlushAll(cache)
    /\ last' = Slot("admin", AdminRequest("cache_clear"), <<>>,
                    IF DOMAIN cache.data # {} THEN "flushed" ELSE "empty",
                    NoEntry, 0, NoCall, NoOutcome, clearResponse, now)
    /\ UNCHANGED <<variant, configured, kind, now, ticks, req, started, rw_vars, ky_vars, lm_vars, rt_vars>>

\* GET /cache/stats: cache.getStats()
GetStats ==
    /\ last' = Slot("admin", AdminRequest("cache_stats"), <<>>, "none", NoEntry, 0,
                    NoCall, NoOutcome, statsResponse(cacheGetStats(cache)), now)
    /\ UNCHANGED <<variant, configured, kind, now, ticks, cache, req, started,
                   rw_vars, ky_vars, lm_vars, rt_vars>>

\* the store's periodic check deletes the expired entries
CheckData(d) ==
    /\ Elapse(d)
    /\ cacheCheckData(cache, now') # cache
    /\ cache' = cacheCheckData(cache, now')
    /\ last' = IdleSlot
    /\ UNCHANGED <<variant, configured, kind, req, started, rw_vars, ky_vars, lm_vars, rt_vars>>

----------------------------------------------------------------------------
(* The rate limiter: app.use(limiter), mounted in front of every route.    *)
(* It counts the requests of each IP in a window that starts with the      *)
(* first request counted and ends windowMs later; the request after the    *)
(* end starts the next window.                                             *)

\* windowMs: 15 * 60 * 1000
windowMs == 900000

\* max: the requests of one IP that a window lets through
max == 100

\* the clock of the model counts seconds
windowSeconds == windowMs \div 1000

IPs == {"ip1", "ip2"}

\* how far the count of an IP may run past max in a run
MaxOverLimit == 1
\* number of steps of a run of the limiter that find the clock advanced
MaxLimiterTicks == 2

\* the time since the last step: none, or a second short of a window
LimitDelays == {0, windowSeconds - 1}

\* the requests of a burst: one short of max, or max
BurstSizes == {max - 1, max}

\* the store's record of an IP: no record is a window that has ended
Record(totalHits, resetTime) == [totalHits |-> totalHits, resetTime |-> resetTime]

NoRecord == Record(0, 0)

WindowLayouts == {"global", "per key"}

\* the end of the window that a request counted at the given time opens
windowEnd(time) ==
    IF lm_windows = "global" THEN ((time \div windowSeconds) + 1) * windowSeconds
    ELSE time + windowSeconds

\* store.increment(key): a record whose window has ended starts again
limiterIncrement(record, time) ==
    IF record.resetTime <= time THEN Record(1, windowEnd(time))
    ELSE Record(record.totalHits + 1, record.resetTime)

\* the limiter lets a request through unless the count is past max
limiterPasses(record) == record.totalHits <= max

\* the record after the i-th of the requests of one IP that are counted one
\* after the other at one time: only the first can find the window ended
CountedUpTo(record, time, i) ==
    IF i = 0 THEN record
    ELSE LET first == limiterIncrement(record, time)
         IN  Record(first.totalHits + (i - 1), first.resetTime)

\* n requests of one IP, counted one after the other at one time: the
\* record they leave and how many of them were let through
Counted(record, time, n) ==
    LET first == limiterIncrement(record, time).totalHits
        \* the requests among the n whose count is not past max
        room == IF first > max THEN 0 ELSE max - first + 1
    IN  [record |-> CountedUpTo(record, time, n),
         passed |-> IF n <= room THEN n ELSE room]

\* res.status(429).send(message)
tooManyRequestsResponse ==
    Response(429, "Too many requests from this IP, please try again later.", "", 0,
             JUndefined)

\* what the last step's arrivals came to: the IP, how many requests arrived
\* and how many of them the limiter let through
Arrival(ip, arrived, passed) == [ip |-> ip, arrived |-> arrived, passed |-> passed]

NoArrival == Arrival("none", 0, 0)

\* history of an IP: the requests let through in the limiter's current
\* window, and the times at which requests were let through with their
\* numbers, oldest first
NoLog == [window |-> 0, seen |-> <<>>]

Logged(log, record, time, passed) ==
    [window |-> (IF record.resetTime <= time THEN 0 ELSE log.window) + passed,
     seen |-> IF passed = 0 THEN log.seen
              ELSE IF log.seen # <<>> /\ log.seen[Len(log.seen)][1] = time
                   THEN [log.seen EXCEPT ![Len(log.seen)] = <<time, @[2] + passed>>]
              ELSE Append(log.seen, <<time, passed>>)]

\* the limiter counts n requests of ip at the given time
Limit(ip, n, time) ==
    LET counted == Counted(lm_store[ip], time, n)
    IN  /\ counted.record.totalHits <= max + MaxOverLimit
        /\ lm_store' = [lm_store EXCEPT ![ip] = counted.record]
        /\ lm_last' = Arrival(ip, n, counted.passed)
        /\ lm_log' = [lm_log EXCEPT ![ip] = Logged(@, lm_store[ip], time, counted.passed)]
        /\ lm_windows' = lm_windows

\* n requests GET /cache/stats of one IP arrive together, e seconds after
\* the last step, and are dealt with one after the other: the response
\* recorded is the one to the last of them
StatsBurst(ip, n, e) ==
    /\ e \in LimitDelays
    /\ e # 0 => ticks < MaxLimiterTicks
    /\ n \in BurstSizes
    /\ now' = now + e
    /\ ticks' = IF e = 0 THEN ticks ELSE ticks + 1
    /\ Limit(ip, n, now')
    /\ last' = Slot("admin", AdminRequest("cache_stats"), <<>>, "none", NoEntry, 0,
                    NoCall, NoOutcome,
                    IF limiterPasses(lm_store'[ip])
                    THEN statsResponse(cacheGetStats(cache))
                    ELSE tooManyRequestsResponse,
                    now')
    /\ UNCHANGED <<variant, configured, kind, cache, req, started, rw_vars, ky_vars,
                   rt_vars>>

\* a limiter mounted after the routes: the handler has run before the
\* limiter counts the request
RoutesBeforeLimiter(ip, r, request) ==
    /\ Limit(ip, 1, now)
    /\ HandleRequestV1(r, request, 0)
    /\ UNCHANGED rt_vars

\* a resource request of one IP: the limiter, then the handler of variant 1
\* if the limiter lets the request through
LimitedRequestV1(ip, r, request) ==
    /\ Limit(ip, 1, now)
    /\ IF limiterPasses(lm_store'[ip])
       THEN HandleRequestV1(r, request, 0)
       ELSE /\ variant = 1
            /\ request \in RequestsV1(kind)
            /\ last' = Slot("limited", request, <<>>, "none", NoEntry, 0, NoCall,
                            NoOutcome, tooManyRequestsResponse, now)
            /\ UNCHANGED <<variant, configured, kind, now, ticks, cache, req, started,
                           rw_vars, ky_vars>>
    /\ UNCHANGED rt_vars

LimitIdle ==
    /\ lm_windows = "per key"
    /\ lm_store = [ip \in IPs |-> NoRecord]
    /\ lm_last = NoArrival
    /\ lm_log = [ip \in IPs |-> NoLog]

----------------------------------------------------------------------------
(* The router.  routes/contentful.ts has one router for the module, and    *)
(* contentfulProxy(cache) adds its routes to it each time it is called;    *)
(* index.ts calls it once for each mount point.                            *)

\* app.use('/api/contentful', ...) and app.use('/', ...), in this order
MountPoints == <<"/api/contentful", "/">>

Route(name, full) == [name |-> name, full |-> full]

\* the routes one call of contentfulProxy adds, in the order of the source
contentfulProxyRoutes(v) ==
    IF v = 1
    THEN <<Route("entries", TRUE), Route("entry", TRUE), Route("assets", TRUE),
           Route("asset", TRUE), Route("content_types", TRUE),
           Route("entries", FALSE), Route("entry", FALSE), Route("assets", FALSE),
           Route("asset", FALSE), Route("content_types", FALSE),
           Route("cache_clear", FALSE), Route("cache_stats", FALSE)>>
    ELSE <<Route("entries", FALSE), Route("entry", FALSE), Route("assets", FALSE),
           Route("asset", FALSE), Route("content_types", FALSE),
           Route("cache_clear", FALSE), Route("cache_stats", FALSE)>>

\* the router's stack after the two calls of index.ts
routerStack(v) == contentfulProxyRoutes(v) \o contentfulProxyRoutes(v)

\* the numbers of a set in ascending order
RECURSIVE Ascending(_)
Ascending(S) ==
    IF S = {} THEN <<>>
    ELSE LET least == CHOOSE x \in S : \A y \in S : x <= y
         IN  <<least>> \o Ascending(S \ {least})

\* the layers of the stack that match the route of a request, in stack order
Matching(stack, request) ==
    Ascending({i \in 1..Len(stack) : stack[i] = Route(request.kind, request.full)})

\* the handlers take (req, res) and never call next()
handlerCallsNext == FALSE

\* the router runs the first layer that matches, and a further layer only
\* when the handler before it called next()
HandlersRun(matching) ==
    IF matching = <<>> THEN <<>>
    ELSE IF handlerCallsNext THEN matching
    ELSE <<matching[1]>>

Routed(mount, matching, ran) == [mount |-> mount, matching |-> matching, ran |-> ran]

NoRouted == Routed("none", <<>>, <<>>)

RouterIdle == rt_last = NoRouted

\* handlers that pass the request on after they dealt with it: the second
\* layer of the route runs too and probes the cache again
RoutedRequestV1EveryLayer(mount, r, request, d) ==
    /\ variant = 1
    /\ Elapse(d)
    /\ FirstIdle(r)
    /\ started < MaxRequests
    /\ request \in RoutedV1(kind)
    /\ started' = started + 1
    /\ rt_last' = Routed(mount, Matching(routerStack(variant), request),
                         Matching(routerStack(variant), request))
    /\ LET cacheKey == generateCacheKey(handlerPath(request), request.query)
           got == cacheGet(cache, cacheKey, now')
           again == cacheGet(got.cache, cacheKey, now')
       IN  /\ cache' = again.cache
           /\ IF Truthy(got.value)
              THEN /\ last' = Slot("done", request, cacheKey, "hit", got.entry, 0,
                                   NoCall, NoOutcome,
                                   okResponse(hitBodyV1(got.value)), now')
                   /\ req' = req
              ELSE /\ req' = [req EXCEPT ![r] =
                         Slot("await", request, cacheKey, "miss", got.entry, 1,
                              contentfulClientGet(upstreamPath(request), request.query),
                              NoOutcome, NoResponse, now')]
                   /\ last' = IdleSlot
    /\ UNCHANGED <<variant, configured, kind, rw_vars, ky_vars>>

\* a request comes in by a mount point and the router hands it to the
\* handlers of its route (variant 1)
RoutedRequestV1(mount, r, request, d) ==
    /\ \E m \in 1..Len(MountPoints) : MountPoints[m] = mount
    /\ LET matching == Matching(routerStack(variant), request)
       IN  /\ Len(HandlersRun(matching)) = 1
           /\ rt_last' = Routed(mount, matching, HandlersRun(matching))
    /\ HandleRequestV1(r, request, d)

\* a request comes in by a mount point and the router hands it to the
\* handlers of its route (variant 2)
RoutedRequestV2(mount, r, request, d) ==
    /\ \E m \in 1..Len(MountPoints) : MountPoints[m] = mount
    /\ LET matching == Matching(routerStack(variant), request)
       IN  /\ Len(HandlersRun(matching)) = 1
           /\ rt_last' = Routed(mount, matching, HandlersRun(matching))
    /\ HandleRequestV2(r, request, d)

\* the process after start: an empty store, no request
ProxyInit ==
    /\ variant \in {1, 2}
    /\ configured \in BOOLEAN
    /\ kind \in Kinds
    /\ now = 0
    /\ ticks = 0
    /\ cache = EmptyCache
    /\ req = [r \in Slots |-> IdleSlot]
    /\ last = IdleSlot
    /\ started = 0

ProxyIdle ==
    /\ variant = 1
    /\ configured = TRUE
    /\ kind = "entries"
    /\ now = 0
    /\ ticks = 0
    /\ cache = EmptyCache
    /\ req = [r \in Slots |-> IdleSlot]
    /\ last = IdleSlot
    /\ started = 0

RewriteIdle ==
    /\ rw_pc = "idle"
    /\ rw_in = JUndefined
    /\ rw_out = JUndefined
    /\ rw_out2 = JUndefined

KeyIdle ==
    /\ ky_pc = "idle"
    /\ ky_reqA = NoRequest
    /\ ky_reqB = NoRequest
    /\ ky_keyA = <<>>
    /\ ky_keyB = <<>>

Init == ProxyInit /\ RewriteIdle /\ KeyIdle /\ LimitIdle /\ RouterIdle

Next ==
    \/ \E r \in Slots, request \in RequestsV1(kind), d \in Delays :
          HandleRequestV1(r, request, d) /\ UNCHANGED <<lm_vars, rt_vars>>
    \/ \E r \in Slots, outcome \in UpstreamOutcomes(configured), d \in Delays :
          ResumeV1(r, outcome, d)
    \/ \E r \in Slots, request \in RequestsV2(kind), d \in Delays :
          HandleRequestV2(r, request, d) /\ UNCHANGED <<lm_vars, rt_vars>>
    \/ \E r \in Slots, outcome \in UpstreamOutcomes(configured), d \in Delays :
          ResumeV2(r, outcome, d)
    \/ ClearCache
    \/ GetStats
    \/ \E d \in Delays : CheckData(d)

Spec == Init /\ [][Next]_vars

\* every upstream call ends: with a response, with a failure, or with the
\* failure the client raises after its timeout of 10 seconds
UpstreamCallEnds(r) ==
    /\ WF_vars(\E outcome \in UpstreamOutcomes(configured), d \in Delays :
                  ResumeV1(r, outcome, d))
    /\ WF_vars(\E outcome \in UpstreamOutcomes(configured), d \in Delays :
                  ResumeV2(r, outcome, d))

\* the runs checked for progress address a list route or an item route
LiveKinds == {"entries", "asset"}

LiveInit == Init /\ kind \in LiveKinds

SpecLive == LiveInit /\ [][Next]_vars /\ \A r \in Slots : UpstreamCallEnds(r)

----------------------------------------------------------------------------
(* The proxy behind its rate limiter: variant 1 with its credentials,      *)
(* requests for /entries and bursts of requests for /cache/stats.          *)

\* the resource request of these runs: GET /entries
LimitRequests == {ShortRequest("entries", <<>>, <<>>)}

\* the upstream answers the calls of these runs with Scenario A's payload
LimitOutcomes == {Outcome("success", 200, FALSE, "", "", ScenarioPayload)}

LimitInit ==
    /\ ProxyIdle
    /\ RewriteIdle
    /\ KeyIdle
    /\ lm_windows \in WindowLayouts
    /\ lm_store = [ip \in IPs |-> NoRecord]
    /\ lm_last = NoArrival
    /\ lm_log = [ip \in IPs |-> NoLog]
    /\ RouterIdle

LimitNext ==
    \/ \E ip \in IPs, n \in BurstSizes, e \in LimitDelays : StatsBurst(ip, n, e)
    \/ \E ip \in IPs, r \in Slots, request \in LimitRequests :
          LimitedRequestV1(ip, r, request)
    \/ \E r \in Slots, outcome \in LimitOutcomes : ResumeV1(r, outcome, 0)

SpecLimit == LimitInit /\ [][LimitNext]_vars

----------------------------------------------------------------------------
(* The proxy behind its router: both variants with their credentials, the  *)
(* requests of a list route and of an item route coming in by either mount *)
(* point.                                                                  *)

RouteInit == Init /\ configured /\ kind \in LiveKinds

\* the upstream answers the calls of these runs with Scenario A's payload
\* or with 404
RouteOutcomes ==
    LimitOutcomes \cup {Outcome("response", 404, TRUE, "Not found", "Request failed",
                                JUndefined)}

RouteNext ==
    \/ \E m \in 1..Len(MountPoints), r \in Slots, request \in RoutedV1(kind),
          d \in Delays :
          RoutedRequestV1(MountPoints[m], r, request, d) /\ UNCHANGED lm_vars
    \/ \E m \in 1..Len(MountPoints), r \in Slots, request \in RequestsV2(kind),
          d \in Delays :
          RoutedRequestV2(MountPoints[m], r, request, d) /\ UNCHANGED lm_vars
    \/ \E r \in Slots, outcome \in RouteOutcomes : ResumeV1(r, outcome, 0)
    \/ \E r \in Slots, outcome \in RouteOutcomes : ResumeV2(r, outcome, 0)

SpecRoute == RouteInit /\ [][RouteNext]_vars

----------------------------------------------------------------------------
(* The cache key generator applied to two requests.                        *)

\* two requests, both given by their query objects or both by their URLs
KeyInit ==
    /\ \/ /\ ky_pc = "input"
          /\ ky_reqA \in KeyRequests
          /\ ky_reqB \in KeyRequests
       \/ /\ ky_pc = "url"
          /\ ky_reqA \in KeyUrls
          /\ ky_reqB \in KeyUrls
    /\ ky_keyA = <<>>
    /\ ky_keyB = <<>>
    /\ RewriteIdle
    /\ ProxyIdle
    /\ LimitIdle
    /\ RouterIdle

DeriveKeys ==
    /\ ky_pc = "input"
    /\ ky_keyA' = generateCacheKey(handlerPath(ky_reqA), ky_reqA.query)
    /\ ky_keyB' = generateCacheKey(handlerPath(ky_reqB), ky_reqB.query)
    /\ ky_pc' = "derived"
    /\ UNCHANGED <<ky_reqA, ky_reqB, rw_vars, px_vars, lm_vars, rt_vars>>

\* the request a handler of the short routes sees for a URL
RequestOfUrl(url) == ShortRequest(url.kind, url.id, expressQuery(url))

\* the handler derives the key of each URL from req.query
DeriveKeysOfUrls ==
    /\ ky_pc = "url"
    /\ ky_keyA' = generateCacheKey(handlerPath(RequestOfUrl(ky_reqA)),
                                   RequestOfUrl(ky_reqA).query)
    /\ ky_keyB' = generateCacheKey(handlerPath(RequestOfUrl(ky_reqB)),
                                   RequestOfUrl(ky_reqB).query)
    /\ ky_pc' = "url_derived"
    /\ UNCHANGED <<ky_reqA, ky_reqB, rw_vars, px_vars, lm_vars, rt_vars>>

KeyNext == DeriveKeys \/ DeriveKeysOfUrls

SpecKey == KeyInit /\ [][KeyNext]_vars

----------------------------------------------------------------------------
(* The rewriter applied once and twice to a JSON value.                    *)

RewriteInit ==
    /\ rw_pc = "input"
    /\ rw_in \in JsonInputs
    /\ rw_out = JUndefined
    /\ rw_out2 = JUndefined
    /\ KeyIdle
    /\ ProxyIdle
    /\ LimitIdle
    /\ RouterIdle

RewriteOnce ==
    /\ rw_pc = "input"
    /\ rw_out' = transformContentfulUrls(rw_in)
    /\ rw_pc' = "once"
    /\ UNCHANGED <<rw_in, rw_out2, ky_vars, px_vars, lm_vars, rt_vars>>

RewriteTwice ==
    /\ rw_pc = "once"
    /\ rw_out2' = transformContentfulUrls(rw_out)
    /\ rw_pc' = "twice"
    /\ UNCHANGED <<rw_in, rw_out, ky_vars, px_vars, lm_vars, rt_vars>>

RewriteNext == RewriteOnce \/ RewriteTwice

SpecRewrite == RewriteInit /\ [][RewriteNext]_vars

----------------------------------------------------------------------------
(* C8: transformContentfulUrls is idempotent: the rewriter applied to its  *)
(* own result returns that result, for every JSON value.                   *)
C8_Idempotent == rw_pc = "twice" => rw_out2 = rw_out

\* a value with two occurrences of the host name in one string, nested in a
\* mapping inside a sequence, has been rewritten twice
C8_Witness ==
    /\ rw_pc = "twice"
    /\ rw_in = JArr(<<JObj([k \in {<<"url">>} |-> JStr(UpstreamHost \o UpstreamHost)])>>)
    /\ rw_out # rw_in

----------------------------------------------------------------------------
(* C9: transformContentfulUrls preserves structure: null, numbers and      *)
(* booleans are returned unchanged; a sequence maps to a sequence of the   *)
(* same length, rewritten element by element in order; a mapping maps to a *)
(* mapping with the same key set, keys unrewritten, values rewritten; in a *)
(* string every occurrence of the upstream host name is replaced by the    *)
(* public host name and every other fragment is unchanged.                 *)

\* position by position: a fragment inside an occurrence of the upstream
\* host becomes the public host's fragment, any other fragment stays
StringRewritten(s, r) ==
    /\ Len(r) = Len(s)
    /\ \A j \in 1..Len(s) :
          IF \E i \in Occurrences(s) : j \in i..(i + Len(UpstreamHost) - 1)
          THEN LET i == CHOOSE k \in Occurrences(s) : j \in k..(k + Len(UpstreamHost) - 1)
               IN  r[j] = PublicHost[j - i + 1]
          ELSE r[j] = s[j]

RECURSIVE Preserved(_, _)
Preserved(in, out) ==
    IF in.t \in {"null", "undefined", "boolean", "number"} THEN out = in
    ELSE /\ out.t = in.t
         /\ IF in.t = "string" THEN StringRewritten(in.v, out.v)
            ELSE IF in.t = "array"
                 THEN /\ Len(out.v) = Len(in.v)
                      /\ \A i \in 1..Len(in.v) : Preserved(in.v[i], out.v[i])
            ELSE /\ DOMAIN out.v = DOMAIN in.v
                 /\ \A k \in DOMAIN in.v : Preserved(in.v[k], out.v[k])

----------------------------------------------------------------------------
(* Claims about the resource handlers, stated on the request answered by   *)
(* the last step.                                                          *)

\* the last step sent the response of a request
Answered == last.pc = "done"

\* the answered request called the upstream and the call succeeded
AnsweredFromUpstream == Answered /\ last.upstream.type = "success"

\* the answered request found, under its key, an entry stored at most
\* stdTTL before and not cleared since
FoundLiveEntry == Answered /\ last.entry # NoEntry /\ last.at <= last.entry.t

\* the answered request found, under its key, an entry stored more than
\* stdTTL before
FoundExpiredEntry == Answered /\ last.entry # NoEntry /\ last.at > last.entry.t

(* C1: for every resource handler and every upstream payload, the request  *)
(* that fetched from the upstream is answered with the rewritten payload,  *)
(* and a later request with the same key that arrives while the entry is   *)
(* within its time to live and uncleared is answered with the body that   *)
(* was stored and sent then, without a call to the upstream.               *)
C1_MissThenHit ==
    /\ AnsweredFromUpstream =>
          last.response = okResponse(transformContentfulUrls(last.upstream.data))
    /\ FoundLiveEntry =>
          /\ last.calls = 0
          /\ last.response = okResponse(last.entry.v)

(* C2: on the miss path of every resource handler, in both variants, the   *)
(* value written to the cache and the body sent are the rewritten upstream *)
(* payload; no cache entry and no success response holds the upstream host *)
(* name in a string.                                                       *)
C2_MissPathRewrites ==
    /\ AnsweredFromUpstream =>
          /\ last.response.data = transformContentfulUrls(last.upstream.data)
          /\ cache.data[last.cacheKey].v = transformContentfulUrls(last.upstream.data)
    /\ \A k \in DOMAIN cache.data : ~HasUpstreamHost(cache.data[k].v)
    /\ (Answered /\ last.response.status = 200) => ~HasUpstreamHost(last.response.data)

(* C3: without the upstream credentials every resource handler, in both    *)
(* variants, answers 500 "Server Configuration Error" and no call to the   *)
(* upstream is made.                                                       *)
C3_NoCredentialsNoCall ==
    ~configured =>
        /\ \A r \in Slots : req[r].pc # "await"
        /\ Answered =>
              /\ last.calls = 0
              /\ last.response.status = 500
              /\ last.response.error = "Server Configuration Error"

(* C4: when the upstream call fails with a response of status s, the       *)
(* handler answers with status s and a body {error, message, status} whose *)
(* status is s and whose message is the upstream's message when it gave    *)
(* one, and the handler's fallback message otherwise.                      *)
C4_UpstreamErrorPropagated ==
    (Answered /\ last.upstream.type = "response") =>
        /\ last.response.status = last.upstream.status
        /\ last.response.bodyStatus = last.upstream.status
        /\ last.response.error = "Contentful API Error"
        /\ last.response.message =
              IF last.upstream.hasMessage /\ last.upstream.message # ""
              THEN last.upstream.message
              ELSE fallbackMessage(last.request.kind)
        /\ last.response.data = JUndefined

\* Scenario B: the upstream answered 404 "Not found"
C4_Witness ==
    /\ Answered
    /\ last.upstream = Outcome("response", 404, TRUE, "Not found", "Request failed",
                               JUndefined)
    /\ last.response.status = 404
    /\ last.response.message = "Not found"
    /\ last.response.bodyStatus = 404

(* C5: a failure that carries no upstream response is answered with 500    *)
(* and one fixed body, {error: "Internal Server Error", message: "Failed   *)
(* to connect to Contentful API"}, whatever the failure was: nothing of    *)
(* the error reaches the client.                                           *)
C5_ConnectErrorFixedBody ==
    (Answered /\ last.upstream.type = "noresponse") =>
        last.response = Response(500, "Internal Server Error",
                                 "Failed to connect to Contentful API", 0, JUndefined)

\* a refused connection has been answered
C5_Witness ==
    /\ Answered
    /\ last.upstream.type = "noresponse"
    /\ last.upstream.detail = "connect ECONNREFUSED"
    /\ last.response.status = 500
    /\ last.response.message # last.upstream.detail

(* C10: an entry is served only while the time to live has not run out     *)
(* since it was stored; a request that finds an entry older than that      *)
(* misses, calls the upstream, and on success replaces the entry with one  *)
(* stamped at the time of the replacement.                                 *)
C10_ExpiredNeverServed ==
    /\ (Answered /\ last.probe = "hit") => last.at <= last.entry.t
    /\ FoundExpiredEntry =>
          /\ last.probe = "miss"
          /\ last.calls = 1
          /\ last.upstream.type = "success" =>
                /\ last.cacheKey \in DOMAIN cache.data
                /\ cache.data[last.cacheKey].t = now + stdTTL
                /\ cache.data[last.cacheKey].t > last.entry.t
                /\ cache.data[last.cacheKey].src = last.upstream.data

\* a request one second after the entry's time to live fetched again and
\* replaced the entry
C10_Witness ==
    /\ FoundExpiredEntry
    /\ last.entry.t = stdTTL
    /\ last.at = stdTTL + 1
    /\ last.upstream.type = "success"
    /\ cache.data[last.cacheKey].t = 2 * stdTTL + 1

(* C11: the time to live of every entry is 5 minutes: an entry stored at   *)
(* time t is not served at any time later than t + 300 seconds.            *)

\* the README's "TTL: 5 minutes (300 seconds)"
documentedTTL == 300

\* when the entry a request found was stored
StoredAt(entry) == entry.t - stdTTL

C11_FiveMinuteTTL ==
    (Answered /\ last.probe = "hit") => last.at <= StoredAt(last.entry) + documentedTTL

----------------------------------------------------------------------------
(* Claims about the cache endpoints and the counters of the store.         *)

\* the last step answered a cache/clear request
Cleared == last.pc = "admin" /\ last.request.kind = "cache_clear"

\* the keys of the requests of a run
RunKeys ==
    {generateCacheKey(handlerPath(q), q.query) : q \in RequestsV1(kind) \cup RequestsV2(kind)}

(* C12: the cache-clear operation answers 200 with a confirmation and      *)
(* empties the whole store: right after it a lookup of any key is absent   *)
(* and the stats report no key.                                            *)
C12_ClearEmptiesStore ==
    Cleared =>
        /\ last.response.status = 200
        /\ last.response.message = "Cache cleared successfully"
        /\ \A key \in RunKeys : cacheGet(cache, key, now).value = JUndefined
        /\ statsResponse(cacheGetStats(cache)).data.v[<<"keys">>] = JNum(0)

\* a store that held an entry has been cleared
C12_Witness == Cleared /\ last.probe = "flushed" /\ DOMAIN cache.data = {}

\* a step in which a resource request arrives at a handler that probes the
\* cache
ProbeStep == started' = started + 1 /\ (variant = 2 \/ configured)

(* C13: each resource request that probes the cache adds exactly one to    *)
(* exactly one counter, hits when it is answered from the cache and misses *)
(* when it goes upstream, and hits + misses is the number of requests that *)
(* probed the cache.                                                       *)
C13_OneCounterPerProbe ==
    [][ProbeStep =>
          /\ IF last'.pc = "done"
             THEN cache'.hits = cache.hits + 1 /\ cache'.misses = cache.misses
             ELSE cache'.misses = cache.misses + 1 /\ cache'.hits = cache.hits
          /\ cache'.hits + cache'.misses = started']_vars

(* C14: the hit and miss counters never decrease, whatever the proxy is    *)
(* asked to do: resource requests, stats reads, cache clears.              *)
C14_CountersMonotonic ==
    [][cache'.hits >= cache.hits /\ cache'.misses >= cache.misses]_vars

----------------------------------------------------------------------------
(* Claims about the course of a request.                                   *)

\* the requests whose slot the step leaves: they were suspended on the
\* upstream call and are not any more
Finishing == {r \in Slots : req[r].pc = "await" /\ req'[r].pc # "await"}

\* the step takes a request into slot r and suspends it on the upstream call
Suspends(r) ==
    /\ req[r].pc = "idle"
    /\ req'[r].pc = "await"
    /\ \A o \in Slots \ {r} : req'[o] = req[o]

\* the step sends the response of a resource request
Responds == last'.pc = "done" /\ last'.response.status \in {200, 404, 500}

(* C15: every request to a resource handler gets exactly one response,     *)
(* whichever branch it takes: a request that arrives is answered in that   *)
(* step or suspended on the upstream call, a suspended request is answered *)
(* when its call ends, and a response is sent in no other step.            *)
C15_ExactlyOneResponse ==
    [][/\ started' = started + 1 =>
             \/ Responds /\ req' = req
             \/ last'.pc # "done" /\ \E r \in Slots : Suspends(r)
       /\ \A r \in Finishing :
             Responds /\ last'.request = req[r].request /\ req'[r].pc = "idle"
       /\ last'.pc = "done" =>
             \/ started' = started + 1 /\ Finishing = {}
             \/ started' = started /\ Cardinality(Finishing) = 1]_vars

\* an upstream error has been answered while another request is suspended
C15_Witness ==
    /\ Answered
    /\ last.upstream.type = "response"
    /\ last.response.status = last.upstream.status
    /\ \E r \in Slots : req[r].pc = "await"

\* the step ends the successful fetch of request r, which found no entry
\* when it probed the cache and finds one now: another request for the key
\* fetched and wrote the cache while r was suspended
OvertakenWriter(r) ==
    /\ r \in Finishing
    /\ last'.upstream.type = "success"
    /\ req[r].entry = NoEntry
    /\ req[r].cacheKey \in DOMAIN cache.data

(* C16: two concurrent requests for one key on a cold cache both miss,     *)
(* both call the upstream and both write the cache; each is answered with  *)
(* the rewritten payload of its own fetch, and the entry is the rewritten  *)
(* payload of the request that wrote last.                                 *)
C16_LastWriteWins ==
    [][\A r \in Finishing :
          /\ last'.upstream.type = "success" =>
                last'.response = okResponse(transformContentfulUrls(last'.upstream.data))
          /\ OvertakenWriter(r) =>
                /\ req[r].probe = "miss"
                /\ req[r].calls = 1
                /\ cache'.data[req[r].cacheKey] =
                      Entry(transformContentfulUrls(last'.upstream.data), now' + stdTTL,
                            last'.upstream.data)]_vars

(* C17: no retries: a request causes at most one upstream call, on every   *)
(* branch, upstream failure and timeout included.                          *)
C17_NoRetries ==
    /\ \A r \in Slots : req[r].calls <= 1
    /\ last.calls <= 1
    /\ (Answered /\ last.upstream.type # "none") => last.calls = 1

\* a request whose upstream call failed with 500 has been answered after
\* one call
C17_Witness ==
    /\ Answered
    /\ last.upstream.type = "response"
    /\ last.upstream.status = 500
    /\ last.calls = 1
    /\ \A r \in Slots : req[r].pc = "idle"

(* C18: every request to a resource handler reaches a response: a request *)
(* suspended on the upstream call is answered when the call ends, and a    *)
(* call that times out is answered as a connection failure, with 500.      *)
C18_EveryRequestAnswered ==
    /\ \A r \in Slots : (req[r].pc = "await") ~> (req[r].pc = "idle" /\ Answered)
    /\ [](Answered /\ last.upstream.detail = "timeout of 10000ms exceeded" =>
             /\ last.response.status = 500
             /\ last.response.error = "Internal Server Error")

\* a request whose upstream call timed out has been answered
C18_Witness ==
    /\ Answered
    /\ last.upstream.type = "noresponse"
    /\ last.upstream.detail = "timeout of 10000ms exceeded"
    /\ last.response.status = 500

(* C19: a cache entry is created or replaced only by a successful upstream *)
(* fetch, under the key of the request that fetched: a request that ends   *)
(* in an error leaves every entry as it is.                                *)
C19_OnlySuccessWrites ==
    [][\A k \in DOMAIN cache'.data :
          (k \notin DOMAIN cache.data \/ cache'.data[k] # cache.data[k]) =>
              /\ last'.pc = "done"
              /\ last'.upstream.type = "success"
              /\ last'.cacheKey = k
              /\ last'.response.status = 200]_vars

\* a request ended in an error while its key holds the entry another
\* request stored
C19_Witness ==
    /\ Answered
    /\ last.upstream.type \in {"response", "noresponse"}
    /\ last.cacheKey \in DOMAIN cache.data
    /\ cache.data[last.cacheKey].v = transformContentfulUrls(ScenarioPayload)

(* C20: every resource request goes through the configuration check, then *)
(* the cache probe, then a hit or a miss: without credentials it is        *)
(* answered with the configuration error and the cache is not probed; the  *)
(* upstream is called only after a miss and never on a hit; the cache is   *)
(* written only after the fetch succeeded and the payload was rewritten.   *)
C20_StateOrder ==
    /\ ~configured =>
          /\ cache = EmptyCache
          /\ \A r \in Slots : req[r].pc # "await"
          /\ Answered => last.probe = "none" /\ last.response = configErrorResponse
    /\ \A r \in Slots : req[r].pc = "await" => req[r].probe = "miss" /\ req[r].calls = 1
    /\ (Answered /\ last.probe = "hit") => last.calls = 0 /\ last.upstream = NoOutcome
    /\ \A k \in DOMAIN cache.data :
          cache.data[k].v = transformContentfulUrls(cache.data[k].src)
    /\ AnsweredFromUpstream =>
          /\ last.probe = "miss"
          /\ cache.data[last.cacheKey].src = last.upstream.data

----------------------------------------------------------------------------
(* Claims about what the cache serves.                                     *)

\* the last step answered a request from the cache
AnsweredFromCache == Answered /\ last.probe = "hit"

C25_StalenessBound ==
    [][/\ last'.pc = "done" /\ last'.probe = "hit" =>
             /\ last'.at - StoredAt(last'.entry) <= stdTTL
             /\ last'.at >= StoredAt(last'.entry)
             /\ last'.response.data \in
                    {last'.entry.src, transformContentfulUrls(last'.entry.src)}
             /\ cache'.data = cache.data
       /\ \A k \in DOMAIN cache'.data :
             (k \notin DOMAIN cache.data \/ cache'.data[k].t # cache.data[k].t) =>
                 /\ last'.pc = "done"
                 /\ last'.upstream.type = "success"
                 /\ last'.cacheKey = k
                 /\ cache'.data[k].t = now' + stdTTL]_vars

\* a hit on the last second of the entry's time to live: the entry keeps
\* the expiry it had
C25_Witness ==
    /\ AnsweredFromCache
    /\ last.at = StoredAt(last.entry) + stdTTL
    /\ last.at = now
    /\ cache.data[last.cacheKey] = last.entry
    /\ cache.data[last.cacheKey].t = now

\* the store was cleared after the last cache probe: its counters are at
\* zero, while a suspended request has counted a miss
ClearedSinceProbe == cache.hits + cache.misses = 0

(* C26: a cache clear does not cancel a request suspended on its upstream  *)
(* call: the clear leaves the requests in flight as they are; the cleared  *)
(* store stays empty until a request completes a successful fetch; a       *)
(* request suspended since before the clear then writes its payload into   *)
(* the cleared store, and a later request for the key is served that       *)
(* entry.                                                                  *)
C26_ClearDoesNotCancel ==
    [][/\ (last'.pc = "admin" /\ last'.request.kind = "cache_clear") =>
             /\ req' = req
             /\ DOMAIN cache'.data = {}
       /\ (DOMAIN cache.data = {} /\ DOMAIN cache'.data # {}) =>
             /\ last'.pc = "done"
             /\ last'.upstream.type = "success"
             /\ DOMAIN cache'.data = {last'.cacheKey}
       /\ \A r \in Finishing :
             (ClearedSinceProbe /\ last'.upstream.type = "success") =>
                 /\ last'.request = req[r].request
                 /\ req[r].cacheKey \in DOMAIN cache'.data
                 /\ cache'.data[req[r].cacheKey].src = last'.upstream.data
                 /\ cache'.data[req[r].cacheKey].v = last'.response.data
       /\ (last'.pc = "done" /\ last'.probe = "hit") =>
             /\ last'.entry = cache.data[last'.cacheKey]
             /\ last'.response.data = cache.data[last'.cacheKey].v]_vars

\* the second request is served the entry that the first request wrote
\* after a clear: the store has counted this hit and nothing else, so it
\* was cleared after the first request's miss
C26_Witness ==
    /\ AnsweredFromCache
    /\ started = 2
    /\ cache.hits = 1
    /\ cache.misses = 0
    /\ last.entry.src = ScenarioPayload
    /\ \A r \in Slots : req[r].pc = "idle"

----------------------------------------------------------------------------
(* Claims about the upstream call of a request.                            *)

\* the requests that called the upstream: those suspended on the call and
\* the one the last step answered after its call
Callers == {s \in {req[r] : r \in Slots} \cup {last} : s.calls = 1}

(* C22: for every resource request that calls the upstream, the query      *)
(* parameters of the call are the inbound query parameters, the cache key  *)
(* is derived from the same parameters, and the path called is the         *)
(* collection of the handler's resource kind, with the item id on a        *)
(* single-item route, under the space the proxy is configured for.         *)
C22_QueryForwarded ==
    \A s \in Callers :
        /\ s.sent.params = s.request.query
        /\ s.cacheKey = generateCacheKey(handlerPath(s.request), s.sent.params)
        /\ s.sent.path =
              <<"/", Collection(s.request.kind)>>
                \o (IF IsItemKind(s.request.kind) THEN <<"/">> \o s.request.id ELSE <<>>)
        /\ configured =>
              s.sent.baseURL = <<"https://cdn.contentful.com", "/spaces/", "s1">>

\* GET /entries/x?a=1 has been answered from the upstream
C22_Witness ==
    /\ AnsweredFromUpstream
    /\ last.request.kind = "entry"
    /\ last.request.query = <<<<<<"a">>, QStr(<<"1">>)>>>>
    /\ last.sent.params = last.request.query
    /\ last.sent.path = <<"/", "entries", "/", "x">>
    /\ last.cacheKey = <<"contentful", ":", "entries", "/", "x", ":", "a", "=", "1">>

----------------------------------------------------------------------------
(* Claims about the rate limiter.                                          *)

\* the requests of seen[i..] let through less than a window after seen[i]
RECURSIVE PassedWithin(_, _, _)
PassedWithin(seen, i, j) ==
    IF j > Len(seen) THEN 0
    ELSE (IF seen[j][1] < seen[i][1] + windowSeconds THEN seen[j][2] ELSE 0)
            + PassedWithin(seen, i, j + 1)

\* the step counts an arrival of ip
Arrives(ip) == lm_store'[ip] # lm_store[ip]

\* the arrivals of the step were all rejected
AllRejected == (\E ip \in IPs : Arrives(ip)) /\ lm_last'.passed = 0

\* a rejected request is answered 429 and leaves the cache, the requests in
\* flight and the count of requests handled as they were
RejectedBeforeHandlers ==
    /\ AllRejected =>
          /\ cache' = cache
          /\ req' = req
          /\ started' = started
    /\ (\E ip \in IPs : Arrives(ip)) /\ lm_last'.passed < lm_last'.arrived =>
          last'.response = tooManyRequestsResponse

\* the arrivals of one IP leave the records of the other IPs as they were
OthersUnaffected ==
    \A ip \in IPs : Arrives(ip) =>
        /\ lm_last'.ip = ip
        /\ \A o \in IPs \ {ip} : lm_store'[o] = lm_store[o] /\ lm_log'[o] = lm_log[o]

(* C24, as claimed: within any 15 minutes at most 100 requests of one IP   *)
(* reach the route handlers; every further request of that IP is rejected  *)
(* before any handler runs, with no cache probe, no cache write and no     *)
(* upstream call, and the requests of other IPs are unaffected.            *)
C24_AnyWindow ==
    [][/\ \A ip \in IPs : \A i \in 1..Len(lm_log'[ip].seen) :
             PassedWithin(lm_log'[ip].seen, i, i) <= max
       /\ RejectedBeforeHandlers
       /\ OthersUnaffected]_vars

(* C24, amended: within each window of the limiter, the 15 minutes that    *)
(* start with the first request of an IP counted after its last window     *)
(* ended, at most 100 requests of that IP reach the route handlers; every  *)
(* further request of that IP in the window is rejected before any handler *)
(* runs, with no cache probe, no cache write and no upstream call, and the *)
(* requests of other IPs are unaffected.                                   *)
C24_LimiterWindow ==
    [][/\ \A ip \in IPs :
             /\ lm_log'[ip].window <= max
             /\ (Arrives(ip) /\ lm_log[ip].window = max /\ lm_store[ip].resetTime > now') =>
                    lm_last'.passed = 0
       /\ RejectedBeforeHandlers
       /\ OthersUnaffected]_vars

\* a request of ip2 has gone to its handler and is suspended on the
\* upstream call, while ip1 is past max in its window
C24_Witness ==
    /\ lm_last = Arrival("ip2", 1, 1)
    /\ lm_store["ip1"].totalHits = max + 1
    /\ lm_store["ip1"].resetTime > now
    /\ lm_log["ip1"].window = max
    /\ \E r \in Slots : req[r].pc = "await" /\ req[r].probe = "miss"

----------------------------------------------------------------------------
(* Claims about the cache key generator.                                   *)

(* C6: generateCacheKey does not depend on the order of the query          *)
(* parameters: two requests with the same path and the same parameters in  *)
(* any order derive the same key.                                          *)
C6_KeyOrderInvariant ==
    (/\ ky_pc = "derived"
     /\ handlerPath(ky_reqA) = handlerPath(ky_reqB)
     /\ ParamSet(ky_reqA.query) = ParamSet(ky_reqB.query)) => ky_keyA = ky_keyB

(* C7: generateCacheKey is injective: two requests with different paths or *)
(* different query parameters, arrays and nested mappings among the values *)
(* and ':' among the path identifiers, never derive the same key.          *)
C7_KeyInjective ==
    (/\ ky_pc = "derived"
     /\ \/ handlerPath(ky_reqA) # handlerPath(ky_reqB)
        \/ ParamSet(ky_reqA.query) # ParamSet(ky_reqB.query)) => ky_keyA # ky_keyB

(* C23: a request with an empty query string (resource?) and a request    *)
(* with no query string (resource) derive the same cache key, and the key  *)
(* keeps its query part, empty, after the separator instead of leaving it  *)
(* out.                                                                    *)
C23_EmptyQuerySameKey ==
    (/\ ky_pc = "url_derived"
     /\ ky_reqA.kind = ky_reqB.kind
     /\ ~ky_reqA.question
     /\ ky_reqB.question /\ ky_reqB.search = <<>>) =>
        /\ ky_keyA = ky_keyB
        /\ ky_keyA = <<"contentful", ":">> \o handlerPath(RequestOfUrl(ky_reqA))
                        \o <<":">> \o <<>>
        /\ ky_keyA[Len(ky_keyA)] = ":"

\* /entries and /entries? have both derived the key contentful:entries:
C23_Witness ==
    /\ ky_pc = "url_derived"
    /\ ky_reqA = Url("entries", <<"x">>, FALSE, <<>>)
    /\ ky_reqB = Url("entries", <<"x">>, TRUE, <<>>)
    /\ ky_keyA = <<"contentful", ":", "entries", ":">>
    /\ ky_keyB = <<"contentful", ":", "entries", ":">>

----------------------------------------------------------------------------
(* Claims about the router.                                                *)

\* the keys whose entry differs between two stores
Rewritten(before, after) ==
    {k \in DOMAIN before \cup DOMAIN after :
        ~(k \in DOMAIN before /\ k \in DOMAIN after /\ before[k] = after[k])}

\* the keys a step adds to the store or gives a new entry
Written(before, after) ==
    {k \in DOMAIN after : ~(k \in DOMAIN before /\ before[k] = after[k])}

\* C27: contentfulProxy is called twice on the one router of the module, so
\* the route of every request has two identical layers; only the first of
\* them runs.  The step in which a request arrives, by either mount point,
\* probes the cache exactly once, writes nothing, and either answers the
\* request from the cache or sends one upstream call; the step in which
\* that call returns probes nothing, writes at most the entry of the
\* request's key and sends the one response of the request.
C27_FirstHandlerOnly ==
    [][/\ started' = started + 1 =>
             /\ rt_last'.mount \in {MountPoints[m] : m \in 1..Len(MountPoints)}
             /\ Len(rt_last'.matching) = 2
             /\ rt_last'.matching[1] < rt_last'.matching[2]
             /\ routerStack(variant)[rt_last'.matching[1]]
                    = routerStack(variant)[rt_last'.matching[2]]
             /\ rt_last'.ran = <<rt_last'.matching[1]>>
             /\ cache'.hits + cache'.misses = cache.hits + cache.misses + 1
             /\ Written(cache.data, cache'.data) = {}
             /\ Cardinality({r \in Slots : req'[r] # req[r]})
                    + (IF last'.pc = "done" THEN 1 ELSE 0) = 1
             /\ \A r \in Slots : req'[r] # req[r] =>
                    /\ req[r].pc = "idle"
                    /\ req'[r].pc = "await"
                    /\ req'[r].calls = 1
             /\ last'.pc = "done" => last'.calls = 0
       /\ Cardinality(Finishing) <= 1
       /\ \A r \in Finishing :
             /\ cache'.hits = cache.hits
             /\ cache'.misses = cache.misses
             /\ Rewritten(cache.data, cache'.data) \subseteq {req[r].cacheKey}
             /\ last'.pc = "done"
             /\ last'.request = req[r].request
             /\ last'.calls = 1
             /\ req'[r] = IdleSlot
             /\ started' = started]_vars

\* the second request of a run came in by the mount point "/", its route
\* has two layers, one ran, and the request was answered from the entry
\* that the first request wrote: one miss and one hit in all
C27_Witness ==
    /\ rt_last.mount = "/"
    /\ Len(rt_last.matching) = 2
    /\ rt_last.ran = <<rt_last.matching[1]>>
    /\ AnsweredFromCache
    /\ started = 2
    /\ cache.hits = 1
    /\ cache.misses = 1

\* two requests for the same resource: the same kind, item and query
SameResource(a, b) == a.kind = b.kind /\ a.id = b.id /\ a.query = b.query

\* C28: on the full-path routes the upstream call is made to the configured
\* space with the path of the resource kind and item and with the query of
\* the request, whatever spaceId and environment the inbound path names,
\* while the cache key holds both.  Requests for the same resource send the
\* same upstream call, and when they differ in spaceId, in environment or
\* in the route (full path or short) they use different keys; a request
\* answered from the cache was served the entry of its own key.
C28_SpaceOnlyInKey ==
    /\ \A a \in Callers : a.request.full =>
          /\ a.sent.baseURL = <<"https://cdn.contentful.com", "/spaces/", "s1">>
          /\ a.sent.path = <<"/", Collection(a.request.kind)>>
                 \o (IF IsItemKind(a.request.kind) THEN <<"/">> \o a.request.id ELSE <<>>)
          /\ a.sent.params = a.request.query
          /\ a.cacheKey = <<"contentful", ":", "spaces", "/">> \o a.request.spaceId
                 \o <<"/", "environments", "/">> \o a.request.environment
                 \o <<"/", Collection(a.request.kind)>>
                 \o (IF IsItemKind(a.request.kind) THEN <<"/">> \o a.request.id ELSE <<>>)
                 \o <<":">>
          /\ \A b \in Callers : SameResource(a.request, b.request) =>
                /\ b.sent = a.sent
                /\ b.request # a.request => b.cacheKey # a.cacheKey
    /\ (AnsweredFromCache /\ last.request.full) =>
          /\ last.cacheKey \in DOMAIN cache.data
          /\ last.entry = cache.data[last.cacheKey]
          /\ last.cacheKey = generateCacheKey(handlerPath(last.request), last.request.query)
    /\ \A a \in RoutedV1(kind), b \in RoutedV1(kind) :
          (a # b /\ {generateCacheKey(handlerPath(a), a.query),
                     generateCacheKey(handlerPath(b), b.query)} \subseteq DOMAIN cache.data)
             => Cardinality(DOMAIN cache.data) = 2

\* the request for space s2, environment staging was fetched from the
\* configured space s1 although the store held a live entry of the same
\* resource for space s1, environment staging; both entries are now stored
C28_Witness ==
    /\ AnsweredFromUpstream
    /\ last.request = FullRequest("entries", <<"s2">>, <<"staging">>, <<>>, <<>>)
    /\ last.sent = [baseURL |-> <<"https://cdn.contentful.com", "/spaces/", "s1">>,
                    path |-> <<"/", "entries">>, params |-> <<>>]
    /\ DOMAIN cache.data =
          {<<"contentful", ":", "spaces", "/", "s2", "/", "environments", "/", "staging",
             "/", "entries", ":">>,
           <<"contentful", ":", "spaces", "/", "s1", "/", "environments", "/", "staging",
             "/", "entries", ":">>}
    /\ \A k \in DOMAIN cache.data : ~isExpired(cache.data[k], now)

----------------------------------------------------------------------------
(* Claims about the payloads the cache can hold.                           *)

\* the requests that have probed the cache and are awaiting the upstream
\* or were answered by the last step
Probed == {s \in {req[r] : r \in Slots} \cup {last} : s.pc \in {"await", "done"}}

\* C29: a request that finds, under its key, an entry that a successful
\* fetch stored at most stdTTL before is answered from the cache, without
\* a call to the upstream, with the stored value, whatever that value is
\* (the empty string, 0, false and null included).
C29_FalsyRoundTrip ==
    \A s \in Probed :
        (s.entry # NoEntry /\ s.at <= s.entry.t) =>
            /\ s.probe = "hit"
            /\ s.calls = 0
            /\ s.pc = "done"
            /\ s.response.status = 200
            /\ s.response.data \in {s.entry.v, transformContentfulUrls(s.entry.v)}

====
